---- MODULE Spec2Model ----
(***************************************************************************)
(* IRWP v2.5 STM32 firmware (stm32_firmware.cpp): the cooperative loop(),   *)
(* the serial command decoder, the autonomous pattern cycle and the        *)
(* emergency interrupt, as a state machine.                                *)
(*                                                                         *)
(* The main loop is modelled statement by statement (pc), so that the      *)
(* interrupt routine emergencyISR can run between any two statements of    *)
(* loop().  Each called handler is one atomic step: the ISR writes only    *)
(* emergencyTriggered, and no handler reads that variable, so a finer      *)
(* grain inside the handlers shows no further behaviour.                   *)
(***************************************************************************)
EXTENDS Integers, Sequences, FiniteSets, TLC

(***************************************************************************)
(* Bounds of the model.                                                    *)
(***************************************************************************)
\* millis(), cycleStartTime and `now` are 32-bit unsigned in the source; the
\* model keeps the modular arithmetic with a narrower word.
ClockBits == 16
\* The loop stops taking delay steps once this many milliseconds have passed.
MaxUptime == 120
\* The same limit for the runs that only tick a started cycle.
MaxTickUptime == 230

ClockModulus == 2 ^ ClockBits

(***************************************************************************)
(* Program constants.                                                      *)
(***************************************************************************)
STATE_IDLE == 0
STATE_ARMED == 1
STATE_CYCLING == 2
STATE_EMERGENCY == 99

PHASE_SLOTS == 20

Channels == {"HAT", "HOODIE", "PANTS", "SHOES"}

\* The level a pin is left at, as a duty in 0..255: digitalWrite drives the pin
\* fully on for any value that is not 0, analogWrite sets the duty itself.
DigitalLevel(val) == IF val # 0 THEN 255 ELSE 0
AnalogLevel(val) == val % 256

(***************************************************************************)
(* Attack structures and the built-in catalog.                             *)
(***************************************************************************)
AttackPhase(g, d, i) == [ledGroup |-> g, durationMs |-> d, intensity |-> i]

\* Aggregate initialisation zero-fills the array slots that have no initializer.
PhaseArray(given) ==
    [k \in 1..PHASE_SLOTS |->
        IF k <= Len(given) THEN given[k] ELSE AttackPhase(0, 0, 0)]

AttackPattern(n, c, given, r) ==
    [name |-> n, phaseCount |-> c, phases |-> PhaseArray(given), repeatCount |-> r]

\* The third entry's initializer list carries one value more than the struct
\* has members; the model keeps the members the struct declares.
PROVEN_PATTERNS ==
    << AttackPattern("AGC_Lock_5_Second", 9,
           << AttackPhase(4, 50, 255), AttackPhase(4, 50, 0),
              AttackPhase(4, 50, 255), AttackPhase(4, 50, 0),
              AttackPhase(4, 50, 255), AttackPhase(4, 50, 0),
              AttackPhase(4, 50, 255), AttackPhase(4, 50, 0),
              AttackPhase(4, 5000, 255) >>, 1),
       AttackPattern("Sensor_Saturation_Blast", 1,
           << AttackPhase(4, 5000, 255) >>, 1),
       AttackPattern("Rolling_Shutter_Flicker", 1,
           << AttackPhase(5, 100, 200) >>, 3) >>

PATTERN_COUNT == Len(PROVEN_PATTERNS)

\* phases[i] with the source's 0-based index.
PhaseAt(p, i) == p.phases[i + 1]

(***************************************************************************)
(* What EEPROM.get(128, currentPattern) may deliver at startup: the record *)
(* is copied as stored, whatever it holds.                                 *)
(***************************************************************************)
EEPROM_IMAGES ==
    { AttackPattern("Stored_50_50", 2,
          << AttackPhase(0, 50, 255), AttackPhase(1, 50, 128) >>, 1),
      AttackPattern("Stored_20_30_50", 3,
          << AttackPhase(0, 20, 255), AttackPhase(1, 30, 100),
             AttackPhase(4, 50, 0) >>, 1),
      AttackPattern("Stored_Blank", 0, << >>, 0),
      AttackPattern("Stored_Zero_Duration", 2,
          << AttackPhase(4, 0, 255), AttackPhase(4, 50, 0) >>, 1) }

(***************************************************************************)
(* Arduino String operations used by the command decoder.  A String is a   *)
(* sequence of one-character strings; positions are 0-based as in the      *)
(* source.                                                                 *)
(***************************************************************************)
DigitChars == << "0", "1", "2", "3", "4", "5", "6", "7", "8", "9" >>

IsDigit(c) == \E k \in 1..10 : DigitChars[k] = c

DigitVal(c) == (CHOOSE k \in 1..10 : DigitChars[k] = c) - 1

IsSpace(c) == c \in {" ", "\t", "\r", "\n"}

RECURSIVE SkipSpaces(_, _)
SkipSpaces(s, i) ==
    IF i <= Len(s) /\ IsSpace(s[i]) THEN SkipSpaces(s, i + 1) ELSE i

RECURSIVE AccDigits(_, _, _)
AccDigits(s, i, acc) ==
    IF i <= Len(s) /\ IsDigit(s[i])
    THEN AccDigits(s, i + 1, acc * 10 + DigitVal(s[i]))
    ELSE acc

\* String::toInt() is atol(): leading white space, an optional sign, then the
\* digits up to the first character that is not one; 0 when there are none.
ToInt(s) ==
    LET i == SkipSpaces(s, 1)
        signed == i <= Len(s) /\ s[i] \in {"-", "+"}
        v == AccDigits(s, IF signed THEN i + 1 ELSE i, 0)
    IN  IF signed /\ s[i] = "-" THEN 0 - v ELSE v

RECURSIVE TrimLeft(_)
TrimLeft(s) ==
    IF s # << >> /\ IsSpace(Head(s)) THEN TrimLeft(Tail(s)) ELSE s

RECURSIVE TrimRight(_)
TrimRight(s) ==
    IF s # << >> /\ IsSpace(s[Len(s)])
    THEN TrimRight(SubSeq(s, 1, Len(s) - 1))
    ELSE s

Trim(s) == TrimRight(TrimLeft(s))

StartsWith(s, p) == Len(s) >= Len(p) /\ SubSeq(s, 1, Len(p)) = p

\* substring(left, right): both are unsigned, so a negative argument (the -1 of
\* a failed indexOf) is larger than any length; the ends are swapped when
\* left > right, and right is cut to the length.
Substring(s, left, right) ==
    LET n == Len(s)
        l0 == IF left < 0 THEN n + 1 ELSE left
        r0 == IF right < 0 THEN n + 1 ELSE right
        l == IF l0 > r0 THEN r0 ELSE l0
        r1 == IF l0 > r0 THEN l0 ELSE r0
        r == IF r1 > n THEN n ELSE r1
    IN  IF l >= n THEN << >> ELSE SubSeq(s, l + 1, r)

SubstringFrom(s, left) == Substring(s, left, Len(s))

\* indexOf(pattern, from): the first position >= from where pattern starts, -1
\* when there is none.
IndexOf(s, p, from) ==
    LET hits == { k \in from..(Len(s) - Len(p)) :
                     SubSeq(s, k + 1, k + Len(p)) = p }
    IN  IF from < 0 \/ hits = {} THEN -1
        ELSE CHOOSE k \in hits : \A h \in hits : k <= h

\* Conversion to uint8_t.
Uint8(v) == v % 256

(***************************************************************************)
(* Command lines.                                                          *)
(***************************************************************************)
Q == "\""

L_ARM == << "A", "R", "M" >>
L_DISARM == << "D", "I", "S", "A", "R", "M" >>
L_START_CYCLE == << "S", "T", "A", "R", "T", "_", "C", "Y", "C", "L", "E" >>
L_STOP_CYCLE == << "S", "T", "O", "P", "_", "C", "Y", "C", "L", "E" >>
L_LOAD_PATTERN == << "L", "O", "A", "D", "_", "P", "A", "T", "T", "E", "R", "N", ":" >>
L_SET_GROUP == << "S", "E", "T", "_", "G", "R", "O", "U", "P", ":" >>
L_EMERGENCY == << "E", "M", "E", "R", "G", "E", "N", "C", "Y" >>
L_GET_STATUS == << "G", "E", "T", "_", "S", "T", "A", "T", "U", "S" >>
L_IDENTIFY == << "I", "D", "E", "N", "T", "I", "F", "Y" >>
L_ALL_OFF == << "A", "L", "L", "_", "O", "F", "F" >>

K_GROUP == << Q, "g", "r", "o", "u", "p", Q, ":" >>
K_INTENSITY == << Q, "i", "n", "t", "e", "n", "s", "i", "t", "y", Q, ":" >>

GroupPayload(g, v) ==
    << "{" >> \o K_GROUP \o g \o << "," >> \o K_INTENSITY \o v \o << "}" >>

\* The lines the serial channel delivers in the model.
LoadLines ==
    { L_LOAD_PATTERN \o a :
        a \in { << "0" >>, << "1" >>, << "2" >>, << "9", "9" >>,
                << "2", "5", "6" >>, << "-", "2", "5", "4" >>, << "-", "1" >> } }

\* The decimal digits of a number >= 0, as a sender writes them.
RECURSIVE Decimal(_)
Decimal(n) ==
    IF n < 10 THEN << DigitChars[n + 1] >>
    ELSE Decimal(n \div 10) \o << DigitChars[(n % 10) + 1] >>

GroupLine(g, v) == L_SET_GROUP \o GroupPayload(Decimal(g), Decimal(v))

GroupLines ==
    { L_SET_GROUP \o GroupPayload(<< "4" >>, << "2", "5", "5" >>),
      L_SET_GROUP \o GroupPayload(<< "0" >>, << "1", "2", "8" >>),
      GroupLine(2, 7),
      L_SET_GROUP \o << "{" >> \o K_GROUP \o << "4", "}" >>,
      L_SET_GROUP \o << "{" >> \o K_INTENSITY \o << "9", "}" >>,
      L_SET_GROUP \o K_GROUP \o << "1", "," >> \o K_INTENSITY \o << "5", "}" >> }

CommandLines ==
    { L_ARM, L_DISARM, L_START_CYCLE, L_STOP_CYCLE, L_EMERGENCY,
      L_GET_STATUS, L_IDENTIFY, L_ALL_OFF,
      << "F", "O", "O" >>, L_ARM \o << " " >>, L_ARM \o << "X" >> }
    \cup LoadLines \cup GroupLines

NoLine == << >>

(***************************************************************************)
(* State.                                                                  *)
(***************************************************************************)
VARIABLES
    pc,                 \* the statement of loop() the main context is at
    currentState,
    safetyEngaged,
    emergencyTriggered,
    currentPattern,
    currentPhaseIndex,
    cycleStartTime,
    globalCycleCount,
    out,                \* duty of the four LED channels
    relay,              \* RELAY_PIN
    statusLed,          \* STATUS_LED_PIN
    millis,             \* the millisecond counter
    bootMillis,         \* its value in the initial state
    cmd,                \* the line read by processSerialCommand
    serialOut,          \* what the latest step of the main context printed
    applied,            \* the phase index processAutonomousCycle last executed in this pass, -1 if none
    passMs,             \* how long one pass of loop() takes, in ms
    flagAtPassStart,    \* emergencyTriggered when the current pass of loop() began
    stateAtPassStart,   \* currentState when the current pass of loop() began
    latchObserved       \* a pass has read emergencyTriggered as true at line 127

vars ==
    << pc, currentState, safetyEngaged, emergencyTriggered, currentPattern,
       currentPhaseIndex, cycleStartTime, globalCycleCount, out, relay,
       statusLed, millis, bootMillis, cmd, serialOut, applied, passMs,
       flagAtPassStart, stateAtPassStart, latchObserved >>

cycleVars == << currentPattern, currentPhaseIndex, cycleStartTime, globalCycleCount >>
historyVars == << bootMillis, passMs, flagAtPassStart, stateAtPassStart, latchObserved >>

AllOff == [c \in Channels |-> DigitalLevel(0)]

Uptime == (millis - bootMillis) % ClockModulus

\* setup() ends about a second after reset (line 92).
StartTimes == {1000}

\* One pass of loop() with its delay(1), serial traffic and pin writes.
PassTimes == {10}

Init ==
    /\ pc = "sample"
    /\ currentState = STATE_IDLE
    /\ safetyEngaged = FALSE
    /\ emergencyTriggered = FALSE
    /\ currentPattern \in EEPROM_IMAGES
    /\ currentPhaseIndex = 0
    /\ cycleStartTime = 0
    /\ globalCycleCount = 0
    /\ out = AllOff
    /\ relay = FALSE
    /\ statusLed = FALSE
    /\ millis \in StartTimes
    /\ bootMillis = millis
    /\ cmd = NoLine
    /\ serialOut = << "STM32 Firmware Initialized" >>
    /\ applied = -1
    /\ passMs \in PassTimes
    /\ flagAtPassStart = FALSE
    /\ stateAtPassStart = STATE_IDLE
    /\ latchObserved = FALSE

(***************************************************************************)
(* Output driver: setLEDGroup, flickerAll, allLEDsOff.                     *)
(***************************************************************************)
\* One iteration of flickerAll's loop body.
FlickerStep(i, intensity) ==
    [c \in Channels |->
        CASE c = "HAT" -> DigitalLevel((i % 2) * intensity)
          [] c = "HOODIE" -> DigitalLevel(((i + 1) % 2) * intensity)
          [] c = "PANTS" -> DigitalLevel(((i + 2) % 2) * intensity)
          [] c = "SHOES" -> DigitalLevel(((i + 3) % 2) * intensity)]

\* The channels as the 50 iterations leave them.
RECURSIVE FlickerAll(_, _, _)
FlickerAll(o, i, intensity) ==
    IF i < 50 THEN FlickerAll(FlickerStep(i, intensity), i + 1, intensity) ELSE o

\* The channels after setLEDGroup(group, intensity); both are uint8_t
\* parameters.  (It also drives the relay on, see RelayAfterSet.)
SetLEDGroup(o, group, intensity) ==
    LET g == Uint8(group)
        v == AnalogLevel(Uint8(intensity))
    IN  CASE g = 0 -> [o EXCEPT !["HAT"] = v]
          [] g = 1 -> [o EXCEPT !["HOODIE"] = v]
          [] g = 2 -> [o EXCEPT !["PANTS"] = v]
          [] g = 3 -> [o EXCEPT !["SHOES"] = v]
          [] g = 4 -> [c \in Channels |-> v]
          [] g = 5 -> FlickerAll(o, 0, Uint8(intensity))
          [] OTHER -> o

\* Line 217: setLEDGroup switches the relay on before it looks at the group.
RelayAfterSet == TRUE

(***************************************************************************)
(* emergencyHandler: latch, Emergency, outputs off, then the endless       *)
(* status-LED loop (pc = "halt"), which never returns to loop().           *)
(***************************************************************************)
\* emergencyHandler without its endless loop: it returns to its caller.
EmergencyHandler_Returns ==
    /\ emergencyTriggered' = TRUE
    /\ currentState' = STATE_EMERGENCY
    /\ out' = AllOff
    /\ relay' = FALSE
    /\ serialOut' = << "EMERGENCY_STOPPED" >>
    /\ statusLed' = TRUE
    /\ pc' = (IF pc = "check" THEN "sample" ELSE "cycle")
    /\ UNCHANGED cycleVars

EmergencyHandler ==
    /\ emergencyTriggered' = TRUE
    /\ currentState' = STATE_EMERGENCY
    /\ out' = AllOff
    /\ relay' = FALSE
    /\ serialOut' = << "EMERGENCY_STOPPED" >>
    /\ statusLed' = TRUE
    /\ pc' = "halt"
    /\ UNCHANGED cycleVars

(***************************************************************************)
(* processCommand, one definition per branch.                              *)
(***************************************************************************)
CmdArm ==
    /\ currentState' = STATE_ARMED
    /\ serialOut' = << "ACK_ARMED" >>
    /\ pc' = "cycle"
    /\ UNCHANGED << cycleVars, out, relay, emergencyTriggered, statusLed >>

CmdDisarm ==
    /\ currentState' = STATE_IDLE
    /\ out' = AllOff
    /\ relay' = FALSE
    /\ serialOut' = << "ACK_DISARMED" >>
    /\ pc' = "cycle"
    /\ UNCHANGED << cycleVars, emergencyTriggered, statusLed >>

CmdStartCycle ==
    /\ IF currentState = STATE_ARMED
       THEN /\ currentState' = STATE_CYCLING
            /\ currentPhaseIndex' = 0
            /\ cycleStartTime' = millis
            /\ serialOut' = << "CYCLE_STARTED" >>
       ELSE /\ serialOut' = << >>
            /\ UNCHANGED << currentState, currentPhaseIndex, cycleStartTime >>
    /\ pc' = "cycle"
    /\ UNCHANGED << currentPattern, globalCycleCount, out, relay,
                    emergencyTriggered, statusLed >>

\* The STOP_CYCLE branch acknowledging without the assignment of line 162.
CmdStopCycle_StateKept ==
    /\ serialOut' = << "CYCLE_STOPPED" >>
    /\ pc' = "cycle"
    /\ UNCHANGED << currentState, cycleVars, out, relay, emergencyTriggered,
                    statusLed >>

CmdStopCycle ==
    /\ currentState' = STATE_ARMED
    /\ serialOut' = << "CYCLE_STOPPED" >>
    /\ pc' = "cycle"
    /\ UNCHANGED << cycleVars, out, relay, emergencyTriggered, statusLed >>

\* The index as the user wrote it, and as the uint8_t idx holds it.
LoadArgument(c) == ToInt(SubstringFrom(c, 13))
LoadIndex(c) == Uint8(LoadArgument(c))

CmdLoadPattern(c) ==
    /\ IF LoadIndex(c) < PATTERN_COUNT
       THEN /\ currentPattern' = PROVEN_PATTERNS[LoadIndex(c) + 1]
            /\ serialOut' = << "PATTERN_LOADED:", currentPattern'.name >>
       ELSE /\ serialOut' = << >>
            /\ UNCHANGED currentPattern
    /\ pc' = "cycle"
    /\ UNCHANGED << currentState, currentPhaseIndex, cycleStartTime,
                    globalCycleCount, out, relay, emergencyTriggered, statusLed >>

\* The payload parse of lines 172-178.
JsonStr(c) == SubstringFrom(c, IndexOf(c, << ":" >>, 0) + 1)
GroupIdx(c) == IndexOf(JsonStr(c), K_GROUP, 0)
IntensityIdx(c) == IndexOf(JsonStr(c), K_INTENSITY, 0)
ParsedGroup(c) ==
    ToInt(Substring(JsonStr(c), GroupIdx(c) + 8,
                    IndexOf(JsonStr(c), << "," >>, GroupIdx(c))))
ParsedIntensity(c) ==
    ToInt(Substring(JsonStr(c), IntensityIdx(c) + 11,
                    IndexOf(JsonStr(c), << "}" >>, IntensityIdx(c))))

\* The SET_GROUP branch without the test of line 176.
CmdSetGroup_NoKeyCheck(c) ==
    /\ out' = SetLEDGroup(out, ParsedGroup(c), ParsedIntensity(c))
    /\ relay' = RelayAfterSet
    /\ serialOut' = << "GROUP_SET" >>
    /\ pc' = "cycle"
    /\ UNCHANGED << currentState, cycleVars, emergencyTriggered, statusLed >>

CmdSetGroup(c) ==
    /\ IF GroupIdx(c) > 0 /\ IntensityIdx(c) > 0
       THEN /\ out' = SetLEDGroup(out, ParsedGroup(c), ParsedIntensity(c))
            /\ relay' = RelayAfterSet
       ELSE UNCHANGED << out, relay >>
    /\ serialOut' = << "GROUP_SET" >>
    /\ pc' = "cycle"
    /\ UNCHANGED << currentState, cycleVars, emergencyTriggered, statusLed >>

CmdGetStatus ==
    /\ serialOut' = << "STATUS", currentState, safetyEngaged,
                       currentState # STATE_IDLE, globalCycleCount >>
    /\ pc' = "cycle"
    /\ UNCHANGED << currentState, cycleVars, out, relay, emergencyTriggered,
                    statusLed >>

CmdIdentify ==
    /\ serialOut' = << "IRWP_STM32_v2.5" >>
    /\ pc' = "cycle"
    /\ UNCHANGED << currentState, cycleVars, out, relay, emergencyTriggered,
                    statusLed >>

CmdAllOff ==
    /\ out' = AllOff
    /\ relay' = FALSE
    /\ serialOut' = << >>
    /\ pc' = "cycle"
    /\ UNCHANGED << currentState, cycleVars, emergencyTriggered, statusLed >>

CmdUnknown ==
    /\ serialOut' = << >>
    /\ pc' = "cycle"
    /\ UNCHANGED << currentState, cycleVars, out, relay, emergencyTriggered,
                    statusLed >>

ProcessCommand(c) ==
    IF c = L_ARM THEN CmdArm
    ELSE IF c = L_DISARM THEN CmdDisarm
    ELSE IF c = L_START_CYCLE THEN CmdStartCycle
    ELSE IF c = L_STOP_CYCLE THEN CmdStopCycle
    ELSE IF StartsWith(c, L_LOAD_PATTERN) THEN CmdLoadPattern(c)
    ELSE IF StartsWith(c, L_SET_GROUP) THEN CmdSetGroup(c)
    ELSE IF c = L_EMERGENCY THEN EmergencyHandler
    ELSE IF c = L_GET_STATUS THEN CmdGetStatus
    ELSE IF c = L_IDENTIFY THEN CmdIdentify
    ELSE IF c = L_ALL_OFF THEN CmdAllOff
    ELSE CmdUnknown

(***************************************************************************)
(* processAutonomousCycle and executeCurrentPhase.                         *)
(***************************************************************************)
\* now - cycleStartTime as a signed difference of the two counter values.
Elapsed_Signed(now) == now - cycleStartTime

\* now - cycleStartTime in unsigned arithmetic.
Elapsed(now) == (now - cycleStartTime) % ClockModulus

\* The elapsed-time test with > in place of >=.
PhaseDue_Strict ==
    Elapsed(millis) > PhaseAt(currentPattern, currentPhaseIndex).durationMs

PhaseDue ==
    Elapsed(millis) >= PhaseAt(currentPattern, currentPhaseIndex).durationMs

ExecuteCurrentPhase ==
    LET phase == PhaseAt(currentPattern, currentPhaseIndex)
    IN  /\ out' = SetLEDGroup(out, phase.ledGroup, phase.intensity)
        /\ relay' = RelayAfterSet

\* processAutonomousCycle without the early return of line 194.
ProcessAutonomousCycle_NoStateGuard ==
    IF PhaseDue
    THEN /\ ExecuteCurrentPhase
         /\ applied' = currentPhaseIndex
         /\ IF Uint8(currentPhaseIndex + 1) >= currentPattern.phaseCount
            THEN /\ currentPhaseIndex' = 0
                 /\ globalCycleCount' = globalCycleCount + 1
                 /\ serialOut' = << "CYCLE_COMPLETE:", globalCycleCount' >>
            ELSE /\ currentPhaseIndex' = Uint8(currentPhaseIndex + 1)
                 /\ serialOut' = << >>
                 /\ UNCHANGED globalCycleCount
         /\ cycleStartTime' = millis
    ELSE /\ applied' = -1
         /\ serialOut' = << >>
         /\ UNCHANGED << currentPhaseIndex, cycleStartTime, globalCycleCount,
                         out, relay >>

\* globalCycleCount is 32 bits wide; it cannot wrap within MaxUptime.
ProcessAutonomousCycle ==
    IF currentState = STATE_CYCLING /\ PhaseDue
    THEN /\ ExecuteCurrentPhase
         /\ applied' = currentPhaseIndex
         /\ IF Uint8(currentPhaseIndex + 1) >= currentPattern.phaseCount
            THEN /\ currentPhaseIndex' = 0
                 /\ globalCycleCount' = globalCycleCount + 1
                 /\ serialOut' = << "CYCLE_COMPLETE:", globalCycleCount' >>
            ELSE /\ currentPhaseIndex' = Uint8(currentPhaseIndex + 1)
                 /\ serialOut' = << >>
                 /\ UNCHANGED globalCycleCount
         /\ cycleStartTime' = millis
    ELSE /\ applied' = -1
         /\ serialOut' = << >>
         /\ UNCHANGED << currentPhaseIndex, cycleStartTime, globalCycleCount,
                         out, relay >>

(***************************************************************************)
(* loop(), statement by statement.                                         *)
(***************************************************************************)
\* Line 125: sample SAFETY_PIN.
LoopSample ==
    /\ pc = "sample"
    /\ \E pinLow \in BOOLEAN : safetyEngaged' = pinLow
    /\ flagAtPassStart' = emergencyTriggered
    /\ stateAtPassStart' = currentState
    /\ serialOut' = << >>
    /\ pc' = "check"
    /\ UNCHANGED << currentState, emergencyTriggered, cycleVars, out, relay,
                    statusLed, millis, bootMillis, passMs, cmd, applied,
                    latchObserved >>

\* Lines 127-130 testing the emergency flag alone, not the interlock sample.
LoopCheck_FlagOnly ==
    /\ pc = "check"
    /\ latchObserved' = (latchObserved \/ emergencyTriggered)
    /\ IF emergencyTriggered
       THEN IF currentState # STATE_IDLE
            THEN EmergencyHandler
            ELSE /\ pc' = "sample"
                 /\ serialOut' = << >>
                 /\ UNCHANGED << currentState, emergencyTriggered, cycleVars,
                                 out, relay, statusLed >>
       ELSE /\ pc' = "serial"
            /\ serialOut' = << >>
            /\ UNCHANGED << currentState, emergencyTriggered, cycleVars, out,
                            relay, statusLed >>
    /\ UNCHANGED << safetyEngaged, millis, bootMillis, passMs, cmd, applied,
                    flagAtPassStart, stateAtPassStart >>

\* Lines 127-130 without the return of line 129: an Idle pass goes on to the
\* command and the tick.
LoopCheck_NoReturn ==
    /\ pc = "check"
    /\ latchObserved' = (latchObserved \/ emergencyTriggered)
    /\ IF (emergencyTriggered \/ ~safetyEngaged) /\ currentState # STATE_IDLE
       THEN EmergencyHandler
       ELSE /\ pc' = "serial"
            /\ serialOut' = << >>
            /\ UNCHANGED << currentState, emergencyTriggered, cycleVars, out,
                            relay, statusLed >>
    /\ UNCHANGED << safetyEngaged, millis, bootMillis, passMs, cmd, applied,
                    flagAtPassStart, stateAtPassStart >>

\* Lines 127-130.  The early return of an Idle pass skips delay(1); the model
\* lets no time pass on it, the clock being read only while Cycling.
LoopCheck ==
    /\ pc = "check"
    /\ latchObserved' = (latchObserved \/ emergencyTriggered)
    /\ IF emergencyTriggered \/ ~safetyEngaged
       THEN IF currentState # STATE_IDLE
            THEN EmergencyHandler
            ELSE /\ pc' = "sample"
                 /\ serialOut' = << >>
                 /\ UNCHANGED << currentState, emergencyTriggered, cycleVars,
                                 out, relay, statusLed >>
       ELSE /\ pc' = "serial"
            /\ serialOut' = << >>
            /\ UNCHANGED << currentState, emergencyTriggered, cycleVars, out,
                            relay, statusLed >>
    /\ UNCHANGED << safetyEngaged, millis, bootMillis, passMs, cmd, applied,
                    flagAtPassStart, stateAtPassStart >>

\* Lines 139-142: nothing pending, or one line read and trimmed.
LoopSerial ==
    /\ pc = "serial"
    /\ \/ /\ pc' = "cycle"
          /\ UNCHANGED cmd
       \/ /\ \E line \in CommandLines : cmd' = Trim(line)
          /\ pc' = "dispatch"
    /\ serialOut' = << >>
    /\ UNCHANGED << currentState, safetyEngaged, emergencyTriggered, cycleVars,
                    out, relay, statusLed, millis, applied, historyVars >>

\* Line 143.
LoopDispatch ==
    /\ pc = "dispatch"
    /\ ProcessCommand(cmd)
    /\ cmd' = NoLine
    /\ UNCHANGED << safetyEngaged, millis, applied, historyVars >>

\* Line 133.
LoopCycle ==
    /\ pc = "cycle"
    /\ ProcessAutonomousCycle
    /\ pc' = "delay"
    /\ UNCHANGED << currentState, safetyEngaged, emergencyTriggered,
                    currentPattern, statusLed, millis, cmd, historyVars >>

\* Line 135: the pass ends and time moves on.
DelayUntil(limit) ==
    /\ pc = "delay"
    /\ Uptime + passMs <= limit
    /\ millis' = (millis + passMs) % ClockModulus
    /\ applied' = -1
    /\ serialOut' = << >>
    /\ pc' = "sample"
    /\ UNCHANGED << currentState, safetyEngaged, emergencyTriggered, cycleVars,
                    out, relay, statusLed, cmd, historyVars >>

LoopDelay == DelayUntil(MaxUptime)

\* Lines 264-267: emergencyHandler's endless loop.
FlashStatusLed ==
    /\ pc = "halt"
    /\ statusLed' = ~statusLed
    /\ serialOut' = << >>
    /\ UNCHANGED << pc, currentState, safetyEngaged, emergencyTriggered,
                    cycleVars, out, relay, millis, cmd, applied, historyVars >>

\* An interrupt routine that does the shutdown itself instead of leaving it to
\* loop().
EmergencyISR_ShutsDown ==
    /\ emergencyTriggered' = TRUE
    /\ currentState' = STATE_EMERGENCY
    /\ out' = AllOff
    /\ relay' = FALSE
    /\ UNCHANGED << pc, safetyEngaged, cycleVars, statusLed, millis, cmd,
                    serialOut, applied, historyVars >>

\* Lines 270-272: the interrupt routine, at any point of the main context.
EmergencyISR ==
    /\ emergencyTriggered' = TRUE
    /\ UNCHANGED << pc, currentState, safetyEngaged, cycleVars, out, relay,
                    statusLed, millis, cmd, serialOut, applied, historyVars >>

Next ==
    \/ LoopSample
    \/ LoopCheck
    \/ LoopSerial
    \/ LoopDispatch
    \/ LoopCycle
    \/ LoopDelay
    \/ FlashStatusLed
    \/ EmergencyISR

Spec == Init /\ [][Next]_vars

(***************************************************************************)
(* A started cycle that is only ticked: the state right after an accepted  *)
(* START_CYCLE, then passes of loop() with the interlock engaged, no       *)
(* interrupt and no serial input, each taking passMs.                      *)
(***************************************************************************)
CatalogPatterns == { PROVEN_PATTERNS[k] : k \in 1..PATTERN_COUNT }

DeclaredDurations(p) ==
    { PhaseAt(p, k).durationMs : k \in 0..(p.phaseCount - 1) }

TickGaps == {5, 10, 20, 25}

InitTick ==
    /\ pc = "cycle"
    /\ currentState = STATE_CYCLING
    /\ safetyEngaged = TRUE
    /\ emergencyTriggered = FALSE
    /\ currentPattern \in
          { p \in EEPROM_IMAGES \cup CatalogPatterns :
              /\ p.phaseCount \in 1..PHASE_SLOTS
              /\ \A d \in DeclaredDurations(p) : d > 0 }
    /\ currentPhaseIndex = 0
    /\ millis \in StartTimes
    /\ cycleStartTime = millis
    /\ globalCycleCount = 0
    /\ out = AllOff
    /\ relay = FALSE
    /\ statusLed = FALSE
    /\ bootMillis = millis
    /\ cmd = NoLine
    /\ serialOut = << "CYCLE_STARTED" >>
    /\ applied = -1
    /\ passMs \in { g \in TickGaps : \A d \in DeclaredDurations(currentPattern) : g < d }
    /\ flagAtPassStart = FALSE
    /\ stateAtPassStart = STATE_ARMED
    /\ latchObserved = FALSE

TickSample == LoopSample /\ safetyEngaged'

TickSerial == LoopSerial /\ pc' = "cycle"

TickDelay == DelayUntil(MaxTickUptime)

NextTick ==
    \/ TickSample
    \/ LoopCheck
    \/ TickSerial
    \/ LoopCycle
    \/ TickDelay

SpecTick == InitTick /\ [][NextTick]_vars

TypeOK ==
    /\ pc \in {"sample", "check", "serial", "dispatch", "cycle", "delay", "halt"}
    /\ currentState \in {STATE_IDLE, STATE_ARMED, STATE_CYCLING, STATE_EMERGENCY}
    /\ currentPhaseIndex \in 0..(PHASE_SLOTS - 1)
    /\ \A c \in Channels : out[c] \in 0..255

(***************************************************************************)
(* Properties.                                                             *)
(***************************************************************************)
OutputsOff == out = AllOff /\ relay = FALSE

\* A step of the main context that leaves statement p (an interrupt leaves pc
\* where it is).
Leaves(p) == pc = p /\ pc' # p

\* C1: whatever state the system is in when the emergency trigger sets the
\* flag, the next complete pass of loop() (one that began with the flag set)
\* leaves currentState == Emergency with all four channels and the relay off.
C1_NextPassEntersEmergency ==
    [][(Leaves("check") /\ flagAtPassStart)
        => (currentState' = STATE_EMERGENCY /\ OutputsOff')]_vars

\* C2: Emergency is absorbing: from a state with currentState == Emergency
\* every step keeps currentState == Emergency, stays in emergencyHandler's
\* endless loop (no command is read or decoded, no tick), leaves the pattern
\* cursor and the cycle count alone, and all channels and the relay are off.
C2_EmergencyAbsorbing ==
    /\ [](currentState = STATE_EMERGENCY
            => (pc = "halt" /\ cmd = NoLine /\ OutputsOff))
    /\ [][currentState = STATE_EMERGENCY
            => /\ currentState' = STATE_EMERGENCY
               /\ pc' = "halt"
               /\ cmd' = NoLine
               /\ UNCHANGED << currentPattern, currentPhaseIndex, globalCycleCount >>
               /\ OutputsOff']_vars

\* C2 witness: Emergency has been entered and the endless loop has run.
C2_Witness ==
    /\ currentState = STATE_EMERGENCY
    /\ statusLed = FALSE
    /\ currentPhaseIndex > 0

\* The pass whose check finds the interlock sampled disengaged while Cycling,
\* with the emergency flag clear.
InterlockDropsWhileCycling ==
    /\ Leaves("check")
    /\ currentState = STATE_CYCLING
    /\ ~safetyEngaged
    /\ ~emergencyTriggered

TableCommands == {L_ARM, L_DISARM, L_START_CYCLE, L_STOP_CYCLE, L_EMERGENCY}

TableStep(st, c) ==
    CASE c = L_EMERGENCY -> STATE_EMERGENCY
      [] c = L_ARM /\ st = STATE_IDLE -> STATE_ARMED
      [] c = L_DISARM /\ st = STATE_ARMED -> STATE_IDLE
      [] c = L_START_CYCLE /\ st = STATE_ARMED -> STATE_CYCLING
      [] c = L_STOP_CYCLE /\ st = STATE_CYCLING -> STATE_ARMED
      [] OTHER -> st

\* C4: replaying ARM, DISARM, START_CYCLE, STOP_CYCLE and EMERGENCY through
\* processCommand from Idle with the interlock engaged, currentState after each
\* command is the state the section 4.2 table gives for the state before it.
C4_FollowsTransitionTable ==
    [][(Leaves("dispatch") /\ cmd \in TableCommands)
        => currentState' = TableStep(currentState, cmd)]_vars

\* A step in which processAutonomousCycle applies a phase or moves the cursor.
TickAdvances ==
    /\ Leaves("cycle")
    /\ (applied' # -1 \/ currentPhaseIndex' # currentPhaseIndex)

\* C5 as claimed: with the ISR free to run between the statements of loop(),
\* every step at which processAutonomousCycle applies a phase or changes
\* currentPhaseIndex starts in a state with currentState == Cycling, the
\* interlock engaged and the emergency flag false.
C5_TickOnlyWhenFlagClear ==
    [][TickAdvances
        => (currentState = STATE_CYCLING /\ safetyEngaged /\ ~emergencyTriggered)]_vars

\* C5 amended: every such step starts in a state with currentState == Cycling,
\* in a pass whose interlock sample was engaged and whose check at line 127 (as
\* every check before it) read the emergency flag false; the ISR may have set
\* the flag since that check.
C5_TickOnlyAfterClearCheck ==
    [][TickAdvances
        => (currentState = STATE_CYCLING /\ safetyEngaged /\ ~latchObserved)]_vars

\* C5 witness: a phase has just been applied although the ISR had set the flag
\* after the pass's check.
C5_Witness ==
    /\ pc = "delay"
    /\ applied # -1
    /\ emergencyTriggered
    /\ ~latchObserved

\* C6: once a pass of loop() has read the emergency flag as true at its first
\* check, the main context is never again at the command read, the command
\* decode or the pattern tick, in that pass or a later one, unless Emergency
\* and all outputs off have been established.
C6_NothingAfterObservedFlag ==
    (latchObserved /\ pc \in {"serial", "dispatch", "cycle", "delay"})
        => (currentState = STATE_EMERGENCY /\ OutputsOff)

\* C6 witness: the flag was read true in Idle, the pass returned, and a later
\* pass is under way with the interlock engaged.
C6_Witness ==
    /\ latchObserved
    /\ currentState = STATE_IDLE
    /\ pc = "check"
    /\ safetyEngaged
    /\ flagAtPassStart

\* C7: while Cycling with a pattern of n >= 1 phases of positive duration,
\* ticked at increasing timestamps spaced below the shortest phase, every tick
\* that acts applies the (ledGroup, intensity) of the phase at the cursor and
\* moves the cursor to the next index modulo n, so the phases are applied in
\* the order 0, 1, ..., n-1, 0, ..., each once per pass through the sequence;
\* globalCycleCount grows by exactly 1 in the step that applies phase n-1 and
\* in no other step; and the 2-phase pattern with durations 50 ms and 50 ms,
\* ticked every 10 ms, has count 2 at the tick 220 ms after the start.
C7_PhasesInOrderCountAtEnd ==
    /\ [][Leaves("cycle")
            => IF applied' # -1
               THEN /\ applied' = currentPhaseIndex
                    /\ out' = SetLEDGroup(out,
                                  PhaseAt(currentPattern, currentPhaseIndex).ledGroup,
                                  PhaseAt(currentPattern, currentPhaseIndex).intensity)
                    /\ currentPhaseIndex' =
                          (currentPhaseIndex + 1) % currentPattern.phaseCount
                    /\ globalCycleCount' = globalCycleCount +
                          (IF currentPhaseIndex = currentPattern.phaseCount - 1
                           THEN 1 ELSE 0)
               ELSE UNCHANGED << currentPhaseIndex, globalCycleCount, out >>]_vars
    /\ [][globalCycleCount' # globalCycleCount
            => (Leaves("cycle") /\ applied' = currentPattern.phaseCount - 1)]_vars
    /\ []((currentPattern.name = "Stored_50_50" /\ passMs = 10
             /\ Uptime = 220 /\ pc = "delay")
            => globalCycleCount = 2)

\* C7 witness: the 50 ms / 50 ms pattern after the tick at 220 ms, every 10 ms,
\* with its second cycle complete.
C7_Witness ==
    /\ currentPattern.name = "Stored_50_50"
    /\ passMs = 10
    /\ Uptime = 220
    /\ pc = "delay"
    /\ globalCycleCount = 2
    /\ currentPhaseIndex = 0

\* C8: a LOAD_PATTERN whose written index is not in 0..PATTERN_COUNT-1 (99, a
\* value of 256 or more, a negative value) leaves currentPattern unchanged and
\* emits no PATTERN_LOADED acknowledgement.
C8_OutOfRangeIndexIgnored ==
    [][(Leaves("dispatch")
          /\ StartsWith(cmd, L_LOAD_PATTERN)
          /\ LoadArgument(cmd) \notin 0..(PATTERN_COUNT - 1))
        => /\ currentPattern' = currentPattern
           /\ (serialOut' = << >> \/ serialOut'[1] # "PATTERN_LOADED:")]_vars

\* A pattern START_CYCLE can schedule: at least one phase, within the array,
\* and no declared phase of duration 0.
Schedulable(p) ==
    /\ p.phaseCount \in 1..PHASE_SLOTS
    /\ \A k \in 0..(p.phaseCount - 1) : PhaseAt(p, k).durationMs > 0

\* C9: a pattern with zero phases or with a phase of duration 0 is never the
\* current pattern of a started cycle: the startup read from persistent storage
\* and LOAD_PATTERN both reject it.
C9_OnlySchedulablePatternsCycle ==
    currentState = STATE_CYCLING => Schedulable(currentPattern)

\* The state right after an accepted LOAD_PATTERN.
JustLoaded ==
    /\ pc = "cycle"
    /\ serialOut # << >>
    /\ serialOut[1] = "PATTERN_LOADED:"

\* C10: right after every accepted LOAD_PATTERN, in any state, the pattern and
\* the cursor have been replaced together: currentPattern is the selected
\* catalog pattern, currentPhaseIndex == 0 and the cycle count == 0.
C10_LoadResetsCursor ==
    JustLoaded
        => /\ \E k \in 1..PATTERN_COUNT : currentPattern = PROVEN_PATTERNS[k]
           /\ currentPhaseIndex = 0
           /\ globalCycleCount = 0

\* C11: a command whose precondition guard fails, START_CYCLE received while
\* currentState is not Armed being the case named, leaves currentState, the
\* pattern and the cursor unchanged and still has an acknowledgement or
\* rejection line written to the command channel.
C11_RefusedStartIsAnswered ==
    [][(Leaves("dispatch") /\ cmd = L_START_CYCLE /\ currentState # STATE_ARMED)
        => /\ UNCHANGED << currentState, currentPattern, currentPhaseIndex,
                           globalCycleCount >>
           /\ serialOut' # << >>]_vars

\* C12: STOP_CYCLE processed while currentState == Cycling ends in Armed with
\* all four channels and the relay off.
C12_StopForcesOutputsOff ==
    [][(Leaves("dispatch") /\ cmd = L_STOP_CYCLE /\ currentState = STATE_CYCLING)
        => (currentState' = STATE_ARMED /\ OutputsOff')]_vars

\* The channels a group number selects (section 4.3; group 4 is all of them).
SelectedChannels(g) ==
    CASE g = 0 -> {"HAT"}
      [] g = 1 -> {"HOODIE"}
      [] g = 2 -> {"PANTS"}
      [] g = 3 -> {"SHOES"}
      [] g = 4 -> Channels

ClaimedIntensities == {0, 7, 128, 255}

\* C13: after SET_GROUP:{"group":g,"intensity":v} with g in 0..4 and v in
\* 0..255, the channels selected by g have intensity exactly v, the other
\* channels are unchanged, and GROUP_SET is emitted.
C13_SetGroupSetsIntensity ==
    [][Leaves("dispatch")
        => \A g \in 0..4 : \A v \in ClaimedIntensities :
              cmd = GroupLine(g, v)
                => /\ \A c \in SelectedChannels(g) : out'[c] = v
                   /\ \A c \in Channels \ SelectedChannels(g) : out'[c] = out[c]
                   /\ serialOut' = << "GROUP_SET" >>]_vars

\* A line no branch of processCommand matches.
Unrecognized(c) ==
    /\ c \notin { L_ARM, L_DISARM, L_START_CYCLE, L_STOP_CYCLE, L_EMERGENCY,
                  L_GET_STATUS, L_IDENTIFY, L_ALL_OFF }
    /\ ~StartsWith(c, L_LOAD_PATTERN)
    /\ ~StartsWith(c, L_SET_GROUP)

\* A SET_GROUP line whose payload has no group key or no intensity key.
LacksKey(c) ==
    /\ StartsWith(c, L_SET_GROUP)
    /\ \/ IndexOf(SubstringFrom(c, Len(L_SET_GROUP)), K_GROUP, 0) = -1
       \/ IndexOf(SubstringFrom(c, Len(L_SET_GROUP)), K_INTENSITY, 0) = -1

\* C14: a line that matches no recognized command, and a SET_GROUP line whose
\* payload lacks the group key or the intensity key, leave currentState,
\* currentPattern, currentPhaseIndex, the cycle count, all channels and the
\* relay unchanged, and loop() goes on to the tick of the same pass.
C14_BadLineChangesNothing ==
    [][(Leaves("dispatch") /\ (Unrecognized(cmd) \/ LacksKey(cmd)))
        => /\ UNCHANGED << currentState, currentPattern, currentPhaseIndex,
                           globalCycleCount, out, relay >>
           /\ pc' = "cycle"]_vars

\* C14 witness: a SET_GROUP line without one of its keys is about to be
\* decoded in the middle of a cycle, with the relay off.
C14_Witness ==
    /\ pc = "dispatch"
    /\ LacksKey(cmd)
    /\ currentState = STATE_CYCLING
    /\ relay = FALSE

\* C15: the asynchronous trigger (the one step that sets the flag without
\* moving the main context) only sets emergencyTriggered: currentState, the
\* pattern, the cursor, the cycle count and every output are as before; and
\* the flag, once true, is never false again, whatever step follows.
C15_TriggerOnlyLatches ==
    /\ [][(pc' = pc /\ emergencyTriggered' # emergencyTriggered)
            => /\ emergencyTriggered'
               /\ UNCHANGED << currentState, safetyEngaged, cycleVars, out,
                               relay, statusLed, millis, cmd, serialOut >>]_vars
    /\ [][emergencyTriggered => emergencyTriggered']_vars

\* C15 witness: the trigger has fired in the middle of a cycle, after the
\* pass's check; the state is still Cycling with the relay on.
C15_Witness ==
    /\ emergencyTriggered
    /\ ~latchObserved
    /\ pc = "cycle"
    /\ currentState = STATE_CYCLING
    /\ relay = TRUE
    /\ currentPhaseIndex > 0

\* C17: a processed STOP_CYCLE or DISARM leaves currentState other than
\* Cycling; only an accepted START_CYCLE makes it Cycling again; and while it
\* is not Cycling no tick applies a phase, touches an output or changes
\* currentPhaseIndex or the cycle count (the accepted START_CYCLE itself sets
\* the cursor to 0).  So the cancellation holds from the tick of the same pass
\* on, until a START_CYCLE is accepted.
C17_StopAndDisarmCancel ==
    /\ [][(Leaves("dispatch") /\ cmd \in {L_STOP_CYCLE, L_DISARM})
            => currentState' # STATE_CYCLING]_vars
    /\ [][(currentState # STATE_CYCLING /\ currentState' = STATE_CYCLING)
            => (Leaves("dispatch") /\ cmd = L_START_CYCLE)]_vars
    /\ [][currentState # STATE_CYCLING
            => /\ globalCycleCount' = globalCycleCount
               /\ \/ currentPhaseIndex' = currentPhaseIndex
                  \/ (Leaves("dispatch") /\ cmd = L_START_CYCLE)
               /\ Leaves("cycle")
                    => (applied' = -1 /\ out' = out /\ relay' = relay)]_vars

\* C17 witness: STOP_CYCLE was processed in a pass that began Cycling, at a
\* moment when the current phase is due; the tick of this pass is next.
C17_Witness ==
    /\ pc = "cycle"
    /\ serialOut = << "CYCLE_STOPPED" >>
    /\ stateAtPassStart = STATE_CYCLING
    /\ currentState = STATE_ARMED
    /\ PhaseDue

\* The phase whose output is in effect: the one applied by the latest tick.
PhaseInEffect ==
    (currentPhaseIndex + currentPattern.phaseCount - 1) % currentPattern.phaseCount

\* C16: once a phase has been applied, the tick applies its successor exactly
\* when the durationMs of the phase in effect has elapsed since that phase
\* was applied: each phase's output lasts that phase's own durationMs.
C16_PhaseLastsOwnDuration ==
    [][(Leaves("cycle") /\ currentState = STATE_CYCLING
          /\ (currentPhaseIndex > 0 \/ globalCycleCount > 0))
        => (applied' # -1
              <=> Elapsed(millis)
                    >= PhaseAt(currentPattern, PhaseInEffect).durationMs)]_vars

\* C18: currentState goes from Idle to Armed only by processing ARM, and
\* only in a loop pass whose interlock sample was engaged.
C18_OnlyArmLeavesIdle ==
    [][(currentState = STATE_IDLE /\ currentState' = STATE_ARMED)
        => (Leaves("dispatch") /\ cmd = L_ARM /\ safetyEngaged)]_vars

(***************************************************************************)
(* The firmware started with one of the catalog patterns stored in EEPROM, *)
(* so that currentPattern is a catalog pattern in every state.             *)
(***************************************************************************)
InitCatalog ==
    /\ pc = "sample"
    /\ currentState = STATE_IDLE
    /\ safetyEngaged = FALSE
    /\ emergencyTriggered = FALSE
    /\ currentPattern \in CatalogPatterns
    /\ currentPhaseIndex = 0
    /\ cycleStartTime = 0
    /\ globalCycleCount = 0
    /\ out = AllOff
    /\ relay = FALSE
    /\ statusLed = FALSE
    /\ millis \in StartTimes
    /\ bootMillis = millis
    /\ cmd = NoLine
    /\ serialOut = << "STM32 Firmware Initialized" >>
    /\ applied = -1
    /\ passMs \in PassTimes
    /\ flagAtPassStart = FALSE
    /\ stateAtPassStart = STATE_IDLE
    /\ latchObserved = FALSE

SpecCatalog == InitCatalog /\ [][Next]_vars

\* C19: over the catalog patterns, whenever currentState is Cycling the
\* cursor is below the current pattern's phaseCount, whatever LOAD_PATTERN,
\* START_CYCLE, STOP_CYCLE commands and ticks came before.
C19_CursorWithinPattern ==
    currentState = STATE_CYCLING => currentPhaseIndex < currentPattern.phaseCount

(***************************************************************************)
(* A cycle started shortly before the millisecond counter wraps to 0.      *)
(***************************************************************************)
WrapStartTimes == { ClockModulus - lead : lead \in {1, 5, 30} }

InitWrap ==
    /\ pc = "cycle"
    /\ currentState = STATE_CYCLING
    /\ safetyEngaged = TRUE
    /\ emergencyTriggered = FALSE
    /\ currentPattern \in
          { p \in EEPROM_IMAGES \cup CatalogPatterns :
              /\ p.phaseCount \in 1..PHASE_SLOTS
              /\ \A d \in DeclaredDurations(p) : d > 0 }
    /\ currentPhaseIndex = 0
    /\ millis \in WrapStartTimes
    /\ cycleStartTime = millis
    /\ globalCycleCount = 0
    /\ out = AllOff
    /\ relay = FALSE
    /\ statusLed = FALSE
    /\ bootMillis = millis
    /\ cmd = NoLine
    /\ serialOut = << "CYCLE_STARTED" >>
    /\ applied = -1
    /\ passMs \in { g \in TickGaps : \A d \in DeclaredDurations(currentPattern) : g < d }
    /\ flagAtPassStart = FALSE
    /\ stateAtPassStart = STATE_ARMED
    /\ latchObserved = FALSE

SpecWrap == InitWrap /\ [][NextTick]_vars

\* Time really passed since cycleStartTime was taken, counted from the start
\* of the behaviour and not from the wrapped counter values.
TrueElapsed == Uptime - ((cycleStartTime - bootMillis) % ClockModulus)

\* C20: with the millisecond counter wrapping to 0 during a phase, the tick
\* advances the phase exactly when the time really elapsed since the phase's
\* timer was started has reached the phase's durationMs: not before, and not
\* never.
C20_ElapsedSurvivesWrap ==
    [][(Leaves("cycle") /\ currentState = STATE_CYCLING)
        => (applied' # -1
              <=> TrueElapsed
                    >= PhaseAt(currentPattern, currentPhaseIndex).durationMs)]_vars

\* C20 witness: the first phase, timed from before the wrap, has just been
\* applied after the counter wrapped.
C20_Witness ==
    /\ pc = "delay"
    /\ applied = 0
    /\ globalCycleCount = 0
    /\ millis < bootMillis
    /\ cycleStartTime = millis

====
